---- MODULE Spec2Model ----
(***************************************************************************)
(* Model of contracts/PrivateYieldPredictorFHE.sol: the two append-only    *)
(* registries (sensor data, model updates), the decryption request         *)
(* bookkeeping (requestToEntityId / requestToContext) and the two oracle   *)
(* callbacks (decryptAggregatedModel / decryptSuggestion).                 *)
(*                                                                         *)
(* Every external function is one atomic action (one EVM transaction).     *)
(* A transaction that reverts leaves the contract storage untouched and    *)
(* emits nothing; only lastCall, the observer's view of the call and its   *)
(* outcome, records it.                                                    *)
(***************************************************************************)
EXTENDS Integers, Sequences, FiniteSets

\* ------------------------------------------------------------------ bounds
\* Scaled-down stand-in for type(uint256).max: `count += 1` reverts there.
MaxUint == 2
\* Number of decryption requests the oracle hands out in a run.
MaxRequests == 2
\* Longest updateIds array passed to requestAggregationDecryption.
MaxBatch == 2
\* Decryption requests issued in a run of SpecRegistry.
RegistryRequests == 1

\* ------------------------------------------------------------- value sets
\* Account addresses; 0 is address(0).
Addresses == {0, 1, 2}
Ids == 0..MaxUint
\* Values of block.timestamp; it never decreases from block to block.
Times == {1, 2}
\* Ciphertext handles; 0 is the handle of an unset storage slot.
Handles == {1, 2}
\* (msg.sender, four handles) of a sensor submission, and (msg.sender,
\* handle) of a model update.
SensorSubmissions == {<<1, <<1, 2, 1, 2>>>>, <<2, <<2, 1, 2, 1>>>>}
ModelSubmissions == {<<1, 1>>, <<2, 2>>}
\* bytes32 context tokens; 0 is bytes32(0).
Contexts == {0, 1}
\* Request ids 1..MaxRequests can be issued; MaxRequests + 1 never is.
RequestIds == 1..(MaxRequests + 1)
\* updateIds arrays: ids of stored updates and of updates never stored
\* (0 always is one).
UpdateIdValues == {0, 1, MaxUint}
UpdateIdArrays == {<<>>} \cup UNION {[1..n -> UpdateIdValues] : n \in 1..MaxBatch}
\* `cleartexts` is a byte string: either the ABI encoding of a string[]
\* or bytes that abi.decode(cleartexts, (string[])) rejects.
StringArrays == {<<>>, <<"a">>, <<"b", "a">>}
AbiEncode(strings) == [wellFormed |-> TRUE, strings |-> strings]
MalformedBytes == [wellFormed |-> FALSE, strings |-> <<>>]
Cleartexts == {AbiEncode(sa) : sa \in StringArrays} \cup {MalformedBytes}
\* A proof is the KMS signature over (requestId, cleartexts), or a forgery
\* that verifies for nothing.
Sign(requestId, cleartexts) == [requestId |-> requestId, cleartexts |-> cleartexts]
Forged == [requestId |-> 0, cleartexts |-> MalformedBytes]

\* Outcomes of a call: normal return, or the revert reason.
Ok == "ok"
RevertEmpty == "empty"
RevertInvalid == "invalid"
RevertInvalidProof == "InvalidKMSSignatures"
RevertDecode == "decode"
RevertOverflow == "Panic(0x11)"
NoEvent == <<>>

\* ------------------------------------------------- frontend (App.tsx)
\* The web client keeps its records in a key -> bytes store of the chain
\* (contract.getData / contract.setData): "data_keys" holds the JSON list
\* of data ids, "data_<id>" the JSON of one record.  Every browser runs its
\* own App; an `await` is a point where other runs, of this or of another
\* browser, take steps.

\* Upload runs started in a behaviour; each takes the next data id.
MaxUploads == 2

\* Browsers, each with its own App state.
Clients == {1, 2}
\* Accounts the wallet of a browser can hand out.
WalletAccounts(c) == IF c = 1 THEN {"0xAb"} ELSE {"0xab", "0xCd"}
\* dataType submitted with the upload form: the initial choice of its
\* select (the other choices differ in this string only).
DataTypes == {"soil"}
\* `${Date.now()}-${random}`: a data id no earlier run has used.  Ids are
\* numbered in the order of Date.now(), which also stamps the record.
DataIds == 1..MaxUploads

\* String.prototype.toLowerCase on the account strings.
ToLowerCase(str) ==
    IF str = "0xAb" THEN "0xab" ELSE IF str = "0xCd" THEN "0xcd" ELSE str

\* getData of a key never set: empty bytes.
NoData == [present |-> FALSE, data |-> "", timestamp |-> 0, owner |-> "",
           dataType |-> "", status |-> ""]

\* A run that is not in flight, with its locals cleared.
Idle == [pc |-> "idle", dataId |-> 0, keys |-> <<>>, dataRecord |-> NoData]
\* A call of loadFarmData in flight; it has no locals that outlive a step.
Loading == [Idle EXCEPT !.pc = "load"]

VARIABLES dataKeys, dataRecords, dataIdsUsed,
          provider, account, farmData, isRefreshing, uploading,
          refreshRun, uploadRun, processRun

frontendVars == <<dataKeys, dataRecords, dataIdsUsed,
                  provider, account, farmData, isRefreshing, uploading,
                  refreshRun, uploadRun, processRun>>

\* State of the store before any upload and of every App after its first
\* render (useState initial values, lines 18-35).
InitFrontend ==
    /\ dataKeys = <<>>
    /\ dataRecords = [i \in DataIds |-> NoData]
    /\ dataIdsUsed = 0
    /\ provider = [c \in Clients |-> FALSE]
    /\ account = [c \in Clients |-> ""]
    /\ farmData = [c \in Clients |-> <<>>]
    /\ isRefreshing = [c \in Clients |-> FALSE]
    /\ uploading = [c \in Clients |-> FALSE]
    /\ refreshRun = [c \in Clients |-> Idle]
    /\ uploadRun = [c \in Clients |-> Idle]
    /\ processRun = [c \in Clients |-> Idle]


VARIABLES sensorUploadCount, sensorData, modelUpdateCount, modelUpdates,
          suggestions, requestToEntityId, requestToContext,
          counterRequest, now, resolved, lastCall

storage == <<sensorUploadCount, sensorData, modelUpdateCount, modelUpdates,
             suggestions, requestToEntityId, requestToContext>>
contractVars == <<sensorUploadCount, sensorData, modelUpdateCount, modelUpdates,
                  suggestions, requestToEntityId, requestToContext,
                  counterRequest, now, resolved, lastCall>>
vars == <<contractVars, frontendVars>>

\* Zero values of the three structs (what an unset mapping slot reads as).
ZeroSensorData == [id |-> 0, uploader |-> 0, encryptedSoilMoisture |-> 0,
                   encryptedSoilPh |-> 0, encryptedTemperature |-> 0,
                   encryptedHumidity |-> 0, timestamp |-> 0]
ZeroModelUpdate == [id |-> 0, contributor |-> 0, encryptedWeightsHash |-> 0,
                    timestamp |-> 0]
ZeroSuggestion == [advice |-> "", applied |-> FALSE]

\* What an observer of the chain sees of a transaction: the function, the
\* request id it concerned (0 if none), its outcome and the event it emitted.
Call(op, requestId, outcome, event) ==
    [op |-> op, requestId |-> requestId, outcome |-> outcome, event |-> event]

Init ==
    /\ sensorUploadCount = 0
    /\ sensorData = [i \in Ids |-> ZeroSensorData]
    /\ modelUpdateCount = 0
    /\ modelUpdates = [i \in Ids |-> ZeroModelUpdate]
    /\ suggestions = [a \in Addresses |-> ZeroSuggestion]
    /\ requestToEntityId = [r \in RequestIds |-> 0]
    /\ requestToContext = [r \in RequestIds |-> 0]
    /\ counterRequest = 0
    /\ now = 1
    /\ resolved = {}
    /\ lastCall = Call("constructor", 0, Ok, NoEvent)
    /\ InitFrontend

\* ----------------------------------------------------------- conversions
\* uint256(uint160(beneficiary)): zero-extension of the 160-bit address.
AddressToUint(a) == a
\* address(uint160(key)): truncation to the address width.
UintToAddress_Shifted(k) == (k + 1) % Cardinality(Addresses)
UintToAddress(k) == k % Cardinality(Addresses)

\* ------------------------------------------------------------- registries
\* Checked `count += 1` of Solidity ^0.8: reverts instead of wrapping.
Increment_Wrapping(count) == [ok |-> TRUE, value |-> (count + 1) % (MaxUint + 1)]
Increment_Saturating(count) ==
    [ok |-> TRUE, value |-> IF count = MaxUint THEN count ELSE count + 1]
Increment(count) == IF count = MaxUint THEN [ok |-> FALSE, value |-> count]
                    ELSE [ok |-> TRUE, value |-> count + 1]

NewSensorData(newId, sender, reading, t) ==
    [id |-> newId, uploader |-> sender,
     encryptedSoilMoisture |-> reading[1], encryptedSoilPh |-> reading[2],
     encryptedTemperature |-> reading[3], encryptedHumidity |-> reading[4],
     timestamp |-> t]

submitEncryptedSensorData(sender, reading, t) ==
    LET inc == Increment(sensorUploadCount)
        newId == inc.value
    IN  /\ now' = t
        /\ IF inc.ok
           THEN /\ sensorUploadCount' = newId
                /\ sensorData' = [sensorData EXCEPT
                                    ![newId] = NewSensorData(newId, sender, reading, t)]
                /\ lastCall' = Call("submitEncryptedSensorData", 0, Ok,
                                    <<"SensorDataSubmitted", newId, sender, t>>)
           ELSE /\ UNCHANGED <<sensorUploadCount, sensorData>>
                /\ lastCall' = Call("submitEncryptedSensorData", 0, RevertOverflow, NoEvent)
        /\ UNCHANGED <<modelUpdateCount, modelUpdates, suggestions,
                       requestToEntityId, requestToContext, counterRequest,
                       resolved>>

NewModelUpdate(newId, sender, weightsHash, t) ==
    [id |-> newId, contributor |-> sender,
     encryptedWeightsHash |-> weightsHash, timestamp |-> t]

submitEncryptedModelUpdate_SharedCounter(sender, weightsHash, t) ==
    LET inc == Increment(sensorUploadCount)
        newId == inc.value
    IN  /\ now' = t
        /\ IF inc.ok
           THEN /\ sensorUploadCount' = newId
                /\ modelUpdateCount' = newId
                /\ modelUpdates' = [modelUpdates EXCEPT
                                      ![newId] = NewModelUpdate(newId, sender, weightsHash, t)]
                /\ lastCall' = Call("submitEncryptedModelUpdate", 0, Ok,
                                    <<"ModelUpdateSubmitted", newId, sender, t>>)
           ELSE /\ UNCHANGED <<sensorUploadCount, modelUpdateCount, modelUpdates>>
                /\ lastCall' = Call("submitEncryptedModelUpdate", 0, RevertOverflow, NoEvent)
        /\ UNCHANGED <<sensorData, suggestions, requestToEntityId,
                       requestToContext, counterRequest, resolved>>

submitEncryptedModelUpdate(sender, weightsHash, t) ==
    LET inc == Increment(modelUpdateCount)
        newId == inc.value
    IN  /\ now' = t
        /\ IF inc.ok
           THEN /\ modelUpdateCount' = newId
                /\ modelUpdates' = [modelUpdates EXCEPT
                                      ![newId] = NewModelUpdate(newId, sender, weightsHash, t)]
                /\ lastCall' = Call("submitEncryptedModelUpdate", 0, Ok,
                                    <<"ModelUpdateSubmitted", newId, sender, t>>)
           ELSE /\ UNCHANGED <<modelUpdateCount, modelUpdates>>
                /\ lastCall' = Call("submitEncryptedModelUpdate", 0, RevertOverflow, NoEvent)
        /\ UNCHANGED <<sensorUploadCount, sensorData, suggestions,
                       requestToEntityId, requestToContext, counterRequest,
                       resolved>>

\* ------------------------------------------------------ external library
\* FHE.toBytes32: the handle of a ciphertext as bytes32.
ToBytes32(handle) == handle

\* FHE.requestDecryption: the library numbers the requests of this contract
\* one after the other, so every returned id is fresh.
RequestDecryption_Reused == IF counterRequest = 0 THEN 1 ELSE counterRequest
RequestDecryption == counterRequest + 1

\* FHE.checkSignatures(requestId, cleartexts, proof): passes iff the proof
\* is a signature over exactly this request id and these cleartexts.
CheckSignatures(requestId, cleartexts, proof) ==
    proof = Sign(requestId, cleartexts)

\* -------------------------------------------------------------- requests
\* The ciphertexts array built by the loop of requestAggregationDecryption:
\* a missing id reads the zero struct, hence the zero handle.
CollectCiphertexts(updateIds) ==
    [i \in 1..Len(updateIds) |->
        ToBytes32(modelUpdates[updateIds[i]].encryptedWeightsHash)]

requestAggregationDecryption_LateCheck(updateIds, context) ==
    LET reqId == RequestDecryption
    IN  /\ counterRequest' = reqId
        /\ requestToEntityId' = [requestToEntityId EXCEPT ![reqId] = 0]
        /\ requestToContext' = [requestToContext EXCEPT ![reqId] = context]
        /\ lastCall' = IF Len(updateIds) > 0
                       THEN Call("requestAggregationDecryption", reqId, Ok,
                                 <<"AggregationDecryptionRequested", reqId, 0>>)
                       ELSE Call("requestAggregationDecryption", 0, RevertEmpty, NoEvent)
        /\ UNCHANGED <<sensorUploadCount, sensorData, modelUpdateCount,
                       modelUpdates, suggestions, now, resolved>>

requestAggregationDecryption(updateIds, context) ==
    LET len == Len(updateIds)
        ciphertexts == CollectCiphertexts(updateIds)
        reqId == RequestDecryption
    IN  /\ IF len > 0
           THEN /\ Len(ciphertexts) = len
                /\ counterRequest' = reqId
                /\ requestToEntityId' = [requestToEntityId EXCEPT ![reqId] = 0]
                /\ requestToContext' = [requestToContext EXCEPT ![reqId] = context]
                /\ lastCall' = Call("requestAggregationDecryption", reqId, Ok, <<"AggregationDecryptionRequested", reqId, 0>>)
           ELSE /\ UNCHANGED <<counterRequest, requestToEntityId, requestToContext>>
                /\ lastCall' = Call("requestAggregationDecryption", 0, RevertEmpty, NoEvent)
        /\ UNCHANGED <<sensorUploadCount, sensorData, modelUpdateCount,
                       modelUpdates, suggestions, now, resolved>>

requestSuggestionDecryption(beneficiary, encryptedSuggestion) ==
    LET ciphertexts == <<ToBytes32(encryptedSuggestion)>>
        reqId == RequestDecryption
    IN  /\ Len(ciphertexts) = 1
        /\ counterRequest' = reqId
        /\ requestToEntityId' = [requestToEntityId EXCEPT
                                   ![reqId] = AddressToUint(beneficiary)]
        /\ requestToContext' = [requestToContext EXCEPT ![reqId] = 0]
        /\ lastCall' = Call("requestSuggestionDecryption", reqId, Ok,
                            <<"SuggestionDecryptionRequested", reqId, beneficiary>>)
        /\ UNCHANGED <<sensorUploadCount, sensorData, modelUpdateCount,
                       modelUpdates, suggestions, now, resolved>>

\* ------------------------------------------------------------- callbacks
\* abi.decode(cleartexts, (string[])) reverts on bytes that are no encoding.
AbiDecodable(cleartexts) == cleartexts.wellFormed
AbiDecode(cleartexts) == cleartexts.strings

\* "Validate request" of the two callbacks: the tests that let a callback
\* for requestId through to the proof check.
AggregationPending(requestId) == requestToContext[requestId] # 0
SuggestionPending(requestId) == requestToEntityId[requestId] # 0

\* Outcome of decryptAggregatedModel, in the order the code checks.
AggregatedModelOutcome(requestId, cleartexts, proof) ==
    LET context == requestToContext[requestId]
    IN  IF context = 0 THEN RevertInvalid
        ELSE IF ~CheckSignatures(requestId, cleartexts, proof) THEN RevertInvalidProof
        ELSE IF ~AbiDecodable(cleartexts) THEN RevertDecode
        ELSE Ok

decryptAggregatedModel(requestId, cleartexts, proof) ==
    LET outcome == AggregatedModelOutcome(requestId, cleartexts, proof)
    IN  /\ IF outcome = Ok
           THEN /\ resolved' = resolved \cup {requestId}
                /\ lastCall' = Call("decryptAggregatedModel", requestId, Ok,
                                    <<"AggregationDecrypted", 0>>)
           ELSE /\ UNCHANGED resolved
                /\ lastCall' = Call("decryptAggregatedModel", requestId, outcome, NoEvent)
        /\ UNCHANGED <<storage, counterRequest, now>>

\* Outcome of decryptSuggestion, in the order the code checks.
SuggestionOutcome_NoRequire(requestId, cleartexts, proof) ==
    IF ~CheckSignatures(requestId, cleartexts, proof) THEN RevertInvalidProof
    ELSE IF ~AbiDecodable(cleartexts) THEN RevertDecode
    ELSE Ok
SuggestionOutcome(requestId, cleartexts, proof) ==
    LET beneficiaryKey == requestToEntityId[requestId]
    IN  IF beneficiaryKey = 0 THEN RevertInvalid
        ELSE IF ~CheckSignatures(requestId, cleartexts, proof) THEN RevertInvalidProof
        ELSE IF ~AbiDecodable(cleartexts) THEN RevertDecode
        ELSE Ok

\* results.length > 0 ? results[0] : ""
AdviceOf_Last(results) == IF Len(results) > 0 THEN results[Len(results)] ELSE ""
AdviceOf(results) == IF Len(results) > 0 THEN results[1] ELSE ""

decryptSuggestion_FirstWins(requestId, cleartexts, proof) ==
    LET outcome == SuggestionOutcome(requestId, cleartexts, proof)
        beneficiary == UintToAddress(requestToEntityId[requestId])
        advice == AdviceOf(AbiDecode(cleartexts))
    IN  /\ IF outcome = Ok
           THEN /\ suggestions' = IF suggestions[beneficiary] = ZeroSuggestion
                                  THEN [suggestions EXCEPT
                                          ![beneficiary] = [advice |-> advice,
                                                            applied |-> FALSE]]
                                  ELSE suggestions
                /\ resolved' = resolved \cup {requestId}
                /\ lastCall' = Call("decryptSuggestion", requestId, Ok,
                                    <<"SuggestionDecrypted", beneficiary>>)
           ELSE /\ UNCHANGED <<suggestions, resolved>>
                /\ lastCall' = Call("decryptSuggestion", requestId, outcome, NoEvent)
        /\ UNCHANGED <<sensorUploadCount, sensorData, modelUpdateCount,
                       modelUpdates, requestToEntityId, requestToContext,
                       counterRequest, now>>

decryptSuggestion(requestId, cleartexts, proof) ==
    LET outcome == SuggestionOutcome(requestId, cleartexts, proof)
        beneficiaryKey == requestToEntityId[requestId]
        beneficiary == UintToAddress(beneficiaryKey)
        advice == AdviceOf(AbiDecode(cleartexts))
    IN  /\ IF outcome = Ok
           THEN /\ suggestions' = [suggestions EXCEPT
                                     ![beneficiary] = [advice |-> advice,
                                                       applied |-> FALSE]]
                /\ resolved' = resolved \cup {requestId}
                /\ lastCall' = Call("decryptSuggestion", requestId, Ok,
                                    <<"SuggestionDecrypted", beneficiary>>)
           ELSE /\ UNCHANGED <<suggestions, resolved>>
                /\ lastCall' = Call("decryptSuggestion", requestId, outcome, NoEvent)
        /\ UNCHANGED <<sensorUploadCount, sensorData, modelUpdateCount,
                       modelUpdates, requestToEntityId, requestToContext,
                       counterRequest, now>>

\* getSuggestion(beneficiary): a view, it returns the stored pair.
getSuggestion(beneficiary) ==
    LET s == suggestions[beneficiary]
    IN  <<s.advice, s.applied>>

\* A call of getSuggestion as a transaction: it returns getSuggestion(b) and,
\* being a view of storage, writes nothing and emits nothing.
callGetSuggestion_MarksApplied(beneficiary) ==
    /\ suggestions' = [suggestions EXCEPT ![beneficiary].applied = TRUE]
    /\ lastCall' = Call("getSuggestion", 0, Ok, NoEvent)
    /\ UNCHANGED <<sensorUploadCount, sensorData, modelUpdateCount,
                   modelUpdates, requestToEntityId, requestToContext,
                   counterRequest, now, resolved>>

callGetSuggestion(beneficiary) ==
    /\ lastCall' = Call("getSuggestion", 0, Ok, NoEvent)
    /\ UNCHANGED <<storage, counterRequest, now, resolved>>

\* ------------------------------------------------------- specifications
\* Proofs a caller can present with (requestId, cleartexts): the genuine
\* signature, the signature made for another request id, or a forgery.
OtherRequest(requestId) == (requestId % (MaxRequests + 1)) + 1
ProofsFor(requestId, cleartexts) ==
    {Sign(requestId, cleartexts), Sign(OtherRequest(requestId), cleartexts), Forged}

\* Spec: the request/callback machinery with all its inputs, over the
\* model-update registry it reads (one contributor, one handle, time still).
Next ==
    \/ \E sub \in {<<1, 1>>} :
          submitEncryptedModelUpdate(sub[1], sub[2], now) /\ UNCHANGED frontendVars
    \/ \E ids \in UpdateIdArrays, ctx \in Contexts :
          counterRequest < MaxRequests /\ requestAggregationDecryption(ids, ctx) /\ UNCHANGED frontendVars
    \/ \E b \in Addresses, h \in Handles :
          counterRequest < MaxRequests /\ requestSuggestionDecryption(b, h) /\ UNCHANGED frontendVars
    \/ \E r \in RequestIds, c \in Cleartexts :
          \E p \in ProofsFor(r, c) : decryptAggregatedModel(r, c, p) /\ UNCHANGED frontendVars
    \/ \E r \in RequestIds, c \in Cleartexts :
          \E p \in ProofsFor(r, c) : decryptSuggestion(r, c, p) /\ UNCHANGED frontendVars
    \/ \E b \in Addresses : callGetSuggestion(b) /\ UNCHANGED frontendVars

Spec == Init /\ [][Next]_vars

\* SpecRegistry: both registries with varied submitters, handles and block
\* times, next to one decryption request of either kind and its callbacks.
NextRegistry ==
    \/ \E sub \in SensorSubmissions, t \in Times :
          t >= now /\ submitEncryptedSensorData(sub[1], sub[2], t) /\ UNCHANGED frontendVars
    \/ \E sub \in ModelSubmissions, t \in Times :
          t >= now /\ submitEncryptedModelUpdate(sub[1], sub[2], t) /\ UNCHANGED frontendVars
    \/ \E ids \in {<<>>, <<1>>}, ctx \in {1} :
          counterRequest < RegistryRequests /\ requestAggregationDecryption(ids, ctx) /\ UNCHANGED frontendVars
    \/ \E b \in {1}, h \in {1} :
          counterRequest < RegistryRequests /\ requestSuggestionDecryption(b, h) /\ UNCHANGED frontendVars
    \/ \E r \in {1}, c \in {AbiEncode(<<"a">>)} :
          \E p \in {Sign(r, c), Forged} : decryptAggregatedModel(r, c, p) /\ UNCHANGED frontendVars
    \/ \E r \in {1}, c \in {AbiEncode(<<"a">>)} :
          \E p \in {Sign(r, c), Forged} : decryptSuggestion(r, c, p) /\ UNCHANGED frontendVars
    \/ \E b \in Addresses : callGetSuggestion(b) /\ UNCHANGED frontendVars

SpecRegistry == Init /\ [][NextRegistry]_vars

\* ------------------------------------------------------------ properties
IsResolve(call) == call.op \in {"decryptAggregatedModel", "decryptSuggestion"}
IsSubmit(call, op) == call.op = op /\ call.outcome = Ok

\* C1: for every request id at most one callback succeeds; after a success
\* every later callback for the same id is rejected.
C1_AtMostOneResolve ==
    [][(IsResolve(lastCall') /\ lastCall'.outcome = Ok)
          => lastCall'.requestId \notin resolved]_vars

\* C2: a callback for a request id that no request operation returned fails
\* with "invalid" (UnknownRequest) whatever the cleartexts and the proof, and
\* changes neither the suggestions nor any other state.
C2_UnknownRequestRejected ==
    [][(IsResolve(lastCall') /\ lastCall'.requestId > counterRequest)
          => /\ lastCall'.outcome = RevertInvalid
             /\ lastCall'.event = NoEvent
             /\ UNCHANGED <<storage, counterRequest, resolved>>]_vars

C2_Witness ==
    /\ lastCall.op = "decryptSuggestion"
    /\ lastCall.requestId > counterRequest
    /\ lastCall.outcome = RevertInvalid
    /\ counterRequest > 0
    /\ \E a \in Addresses : suggestions[a] # ZeroSuggestion

\* C3: a callback with a rejected proof on a pending request fails with
\* InvalidProof and changes nothing; the request then accepts a callback
\* with a valid proof, and a callback succeeds for it exactly once.
C3_RetryThenExactlyOnce ==
    [][/\ \A r \in RequestIds :
            (/\ lastCall'.op = "decryptSuggestion"
             /\ lastCall'.requestId = r
             /\ SuggestionPending(r)
             /\ lastCall'.outcome # Ok
             /\ lastCall'.outcome # RevertDecode)
               => /\ lastCall'.outcome = RevertInvalidProof
                  /\ UNCHANGED <<storage, counterRequest, resolved>>
                  /\ \A c \in Cleartexts :
                        AbiDecodable(c) => (SuggestionOutcome(r, c, Sign(r, c)) = Ok)'
       /\ \A r \in RequestIds :
            (/\ lastCall'.op = "decryptAggregatedModel"
             /\ lastCall'.requestId = r
             /\ AggregationPending(r)
             /\ lastCall'.outcome # Ok
             /\ lastCall'.outcome # RevertDecode)
               => /\ lastCall'.outcome = RevertInvalidProof
                  /\ UNCHANGED <<storage, counterRequest, resolved>>
                  /\ \A c \in Cleartexts :
                        AbiDecodable(c) => (AggregatedModelOutcome(r, c, Sign(r, c)) = Ok)'
       /\ (IsResolve(lastCall') /\ lastCall'.outcome = Ok)
             => lastCall'.requestId \notin resolved]_vars

\* C4: the ids a registry assigns are 1, 2, 3, ... in call order, and the
\* records it holds are exactly those with ids 1..count.
RegistryIsDense ==
    \A i \in Ids :
       /\ IF i \in 1..sensorUploadCount
          THEN sensorData[i].id = i /\ sensorData[i].uploader # 0
          ELSE sensorData[i] = ZeroSensorData
       /\ IF i \in 1..modelUpdateCount
          THEN modelUpdates[i].id = i /\ modelUpdates[i].contributor # 0
          ELSE modelUpdates[i] = ZeroModelUpdate

C4_IdsSequential ==
    /\ []RegistryIsDense
    /\ [][/\ IsSubmit(lastCall', "submitEncryptedSensorData")
             => /\ lastCall'.event[2] = sensorUploadCount + 1
                /\ sensorUploadCount' = sensorUploadCount + 1
          /\ IsSubmit(lastCall', "submitEncryptedModelUpdate")
             => /\ lastCall'.event[2] = modelUpdateCount + 1
                /\ modelUpdateCount' = modelUpdateCount + 1
          /\ sensorUploadCount' >= sensorUploadCount
          /\ modelUpdateCount' >= modelUpdateCount]_vars

C4_Witness ==
    /\ sensorUploadCount = MaxUint
    /\ modelUpdateCount = MaxUint
    /\ IsSubmit(lastCall, "submitEncryptedModelUpdate")
    /\ lastCall.event[2] = MaxUint

\* C5: a successful decryptSuggestion(r, ...) changes the suggestion of the
\* beneficiary bound to r when r was requested and of nobody else; a request
\* records its binding and no later operation modifies the binding of an
\* issued request id.
C5_BindingIsSoleAuthority ==
    [][/\ \A r \in 1..counterRequest :
            /\ requestToEntityId'[r] = requestToEntityId[r]
            /\ requestToContext'[r] = requestToContext[r]
       /\ (lastCall'.op = "requestSuggestionDecryption")
             => /\ lastCall'.requestId = counterRequest'
                /\ lastCall'.requestId > counterRequest
                /\ requestToEntityId'[lastCall'.requestId] = lastCall'.event[3]
                /\ requestToContext'[lastCall'.requestId] = 0
       /\ (lastCall'.op = "decryptSuggestion" /\ lastCall'.outcome = Ok)
             => /\ lastCall'.requestId \in 1..counterRequest
                /\ \A a \in Addresses :
                      a # requestToEntityId[lastCall'.requestId]
                         => suggestions'[a] = suggestions[a]
       /\ (lastCall'.op # "decryptSuggestion")
             => suggestions' = suggestions]_vars

C5_Witness ==
    /\ lastCall.op = "decryptSuggestion"
    /\ lastCall.outcome = Ok
    /\ counterRequest = 2
    /\ requestToEntityId[1] = 1
    /\ requestToEntityId[2] = 2
    /\ suggestions[1] # ZeroSuggestion
    /\ suggestions[2] = ZeroSuggestion

\* C6: when decryptSuggestion(r, payload, proof) succeeds with a non-empty
\* payload for a request made for beneficiary B, getSuggestion(B) returns
\* (payload[0], false).
C6_SuggestionStored ==
    [][(lastCall'.op = "decryptSuggestion" /\ lastCall'.outcome = Ok)
          => LET r == lastCall'.requestId
             IN  \A c \in Cleartexts :
                    \A p \in ProofsFor(r, c) :
                       (Len(c.strings) > 0 /\ decryptSuggestion(r, c, p))
                          => \E b \in Addresses \ {0} :
                                /\ b = requestToEntityId[r]
                                /\ getSuggestion(b)' = <<c.strings[1], FALSE>>]_vars

C6_Witness ==
    /\ lastCall.op = "decryptSuggestion"
    /\ lastCall.outcome = Ok
    /\ requestToEntityId[lastCall.requestId] = 2
    /\ getSuggestion(2) = <<"b", FALSE>>

\* C7: after decryptAggregatedModel succeeded for an aggregation request,
\* the request is Resolved: it is no longer pending, so no further callback
\* is accepted for it.
C7_AggregationResolved ==
    (lastCall.op = "decryptAggregatedModel" /\ lastCall.outcome = Ok)
       => ~AggregationPending(lastCall.requestId)

\* C8: a callback with a valid proof and an empty string[] on a pending
\* suggestion request succeeds, stores advice "" with applied false for the
\* bound beneficiary, and leaves the request Resolved (no longer pending).
C8_EmptyPayloadResolves ==
    [][\A r \in RequestIds :
          (/\ SuggestionPending(r)
           /\ decryptSuggestion(r, AbiEncode(<<>>), Sign(r, AbiEncode(<<>>))))
             => /\ lastCall'.outcome = Ok
                /\ suggestions'[requestToEntityId[r]] = [advice |-> "", applied |-> FALSE]
                /\ ~SuggestionPending(r)']_vars

\* C9: a call that fails leaves the records, both counters, the request
\* bindings and the suggestions as they were, and emits no event.
C9_FailureChangesNothing ==
    [][(lastCall'.outcome # Ok)
          => /\ UNCHANGED <<storage, counterRequest, resolved>>
             /\ lastCall'.event = NoEvent]_vars

C9_Witness ==
    /\ lastCall.op = "requestAggregationDecryption"
    /\ lastCall.outcome = RevertEmpty
    /\ counterRequest > 0
    /\ modelUpdateCount > 0

\* C10: requestAggregationDecryption with an id for which no model update is
\* stored (0, or above modelUpdateCount) fails and records no binding.
C10_UnknownEntityRejected ==
    [][\A ids \in UpdateIdArrays, ctx \in Contexts :
          (/\ requestAggregationDecryption(ids, ctx)
           /\ \E i \in 1..Len(ids) : ids[i] \notin 1..modelUpdateCount)
             => /\ lastCall'.outcome # Ok
                /\ UNCHANGED <<requestToEntityId, requestToContext, counterRequest>>]_vars

\* C11: requestAggregationDecryption with an empty id list fails with
\* "empty" (EmptyBatch) before the library is asked for a request id: no id
\* is allocated, no binding is stored and no event is emitted.
C11_EmptyBatchRejected ==
    [][(lastCall'.op = "requestAggregationDecryption")
          => \A ctx \in Contexts :
                requestAggregationDecryption(<<>>, ctx)
                   => /\ lastCall'.outcome = RevertEmpty
                      /\ lastCall'.event = NoEvent
                      /\ lastCall'.requestId = 0
                      /\ counterRequest' = counterRequest
                      /\ requestToEntityId' = requestToEntityId
                      /\ requestToContext' = requestToContext]_vars

C11_Witness ==
    /\ lastCall.op = "requestAggregationDecryption"
    /\ lastCall.outcome = RevertEmpty
    /\ counterRequest = 1
    /\ requestToContext[1] = 1
    /\ requestToContext[2] = 0

\* C12: getSuggestion(b) returns ("", false) as long as no suggestion request
\* bound to b has been resolved successfully, also while requests for b are
\* pending or had a callback rejected.
SuggestionResolvedFor(b) ==
    \E r \in resolved :
       requestToEntityId[r] = b /\ requestToContext[r] = 0

C12_DefaultSuggestion ==
    \A b \in Addresses :
       ~SuggestionResolvedFor(b) => getSuggestion(b) = <<"", FALSE>>

C12_Witness ==
    /\ lastCall.op = "decryptSuggestion"
    /\ lastCall.outcome = RevertInvalidProof
    /\ requestToEntityId[lastCall.requestId] = 1
    /\ ~SuggestionResolvedFor(1)
    /\ SuggestionResolvedFor(2)
    /\ getSuggestion(2) # <<"", FALSE>>
    /\ getSuggestion(1) = <<"", FALSE>>

\* C13: a request that becomes resolved has had one result record written
\* for it in the same step: the suggestion of its beneficiary and no other,
\* or, for an aggregation, the aggregate marker (so the first aggregation
\* that is resolved changes the contract storage).
C13_ResolvedHasResultWrite ==
    [][/\ (lastCall'.op = "decryptSuggestion" /\ lastCall'.outcome = Ok)
             => \E b \in Addresses \ {0} :
                   /\ b = requestToEntityId[lastCall'.requestId]
                   /\ suggestions'[b].applied = FALSE
                   /\ \A a \in Addresses \ {b} : suggestions'[a] = suggestions[a]
       /\ (/\ lastCall'.op = "decryptAggregatedModel"
           /\ lastCall'.outcome = Ok
           /\ \A r \in resolved : requestToContext[r] = 0)
             => storage' # storage]_vars

\* C14: when a second suggestion request for the same beneficiary is
\* resolved, getSuggestion returns the advice of the callback that ran last
\* with applied false; the earlier record is replaced whole.
C14_LastResolutionWins ==
    [][(lastCall'.op = "decryptSuggestion" /\ lastCall'.outcome = Ok)
          => \A r \in RequestIds, b \in Addresses :
                (/\ r = lastCall'.requestId
                 /\ b = requestToEntityId[r]
                 /\ \E q \in resolved \ {r} :
                       requestToEntityId[q] = b /\ requestToContext[q] = 0)
                   => \A c \in Cleartexts :
                         decryptSuggestion(r, c, Sign(r, c))
                            => getSuggestion(b)' =
                                  <<IF Len(c.strings) > 0 THEN c.strings[1] ELSE "",
                                    FALSE>>]_vars

C14_Witness ==
    /\ lastCall.op = "decryptSuggestion"
    /\ lastCall.outcome = Ok
    /\ lastCall.requestId = 1
    /\ requestToEntityId[1] = 2
    /\ requestToEntityId[2] = 2
    /\ resolved = {1, 2}
    /\ getSuggestion(2) = <<"a", FALSE>>

\* C15: a sensor record or model update, once stored under its id, is never
\* changed or removed by a later call; it keeps the id, submitter, handles
\* and timestamp written by the submission.
C15_RecordsImmutable ==
    [][/\ \A i \in Ids :
            /\ (i \in 1..sensorUploadCount \/ sensorData[i] # ZeroSensorData)
                  => sensorData'[i] = sensorData[i]
            /\ (i \in 1..modelUpdateCount \/ modelUpdates[i] # ZeroModelUpdate)
                  => modelUpdates'[i] = modelUpdates[i]
       /\ IsSubmit(lastCall', "submitEncryptedSensorData")
             => \A sub \in SensorSubmissions, t \in Times :
                   submitEncryptedSensorData(sub[1], sub[2], t)
                      => sensorData'[sensorUploadCount'] =
                            [id |-> sensorUploadCount', uploader |-> sub[1],
                             encryptedSoilMoisture |-> sub[2][1],
                             encryptedSoilPh |-> sub[2][2],
                             encryptedTemperature |-> sub[2][3],
                             encryptedHumidity |-> sub[2][4],
                             timestamp |-> t]
       /\ IsSubmit(lastCall', "submitEncryptedModelUpdate")
             => \A sub \in ModelSubmissions, t \in Times :
                   submitEncryptedModelUpdate(sub[1], sub[2], t)
                      => modelUpdates'[modelUpdateCount'] =
                            [id |-> modelUpdateCount', contributor |-> sub[1],
                             encryptedWeightsHash |-> sub[2], timestamp |-> t]]_vars

C15_Witness ==
    /\ sensorUploadCount = 2
    /\ sensorData[1].uploader = 1
    /\ sensorData[1].timestamp = 1
    /\ sensorData[2].uploader = 2
    /\ sensorData[2].timestamp = 2
    /\ modelUpdateCount = 1
    /\ lastCall.op = "decryptSuggestion"
    /\ lastCall.outcome = Ok

\* C16: the two registries are independent: a sensor submission leaves the
\* model-update counter and records alone, a model-update submission leaves
\* the sensor counter and records alone, and neither touches the request
\* bindings or the suggestions.
C16_RegistriesIndependent ==
    [][/\ (lastCall'.op = "submitEncryptedSensorData")
             => UNCHANGED <<modelUpdateCount, modelUpdates, requestToEntityId,
                            requestToContext, suggestions, counterRequest>>
       /\ (lastCall'.op = "submitEncryptedModelUpdate")
             => UNCHANGED <<sensorUploadCount, sensorData, requestToEntityId,
                            requestToContext, suggestions, counterRequest>>]_vars

C16_Witness ==
    /\ IsSubmit(lastCall, "submitEncryptedModelUpdate")
    /\ modelUpdateCount = 1
    /\ sensorUploadCount = 2
    /\ counterRequest = 1
    /\ requestToEntityId[1] = 1
    /\ suggestions[1] # ZeroSuggestion

\* C17: reading a beneficiary's suggestion changes no state: the registries,
\* the suggestions, the request bindings and the request counter are the same
\* after getSuggestion as before, for every beneficiary, with or without a
\* stored suggestion.
C17_ReadChangesNothing ==
    [][(lastCall'.op = "getSuggestion")
          => \A b \in Addresses :
                callGetSuggestion(b)
                   => /\ storage' = storage
                      /\ counterRequest' = counterRequest
                      /\ getSuggestion(b)' = getSuggestion(b)
                      /\ lastCall'.event = NoEvent]_vars

\* A read happened in a state where a suggestion is stored for one
\* beneficiary and none for another, with a request still on record.
C17_Witness ==
    /\ lastCall.op = "getSuggestion"
    /\ getSuggestion(1) # <<"", FALSE>>
    /\ getSuggestion(2) = <<"", FALSE>>
    /\ counterRequest >= 1
    /\ modelUpdateCount >= 1

\* C18: every request issued by a request operation is resolvable: for the
\* request id returned by requestAggregationDecryption (whatever the context,
\* the zero context included) or by requestSuggestionDecryption (whatever
\* the beneficiary, the zero address included), the callback of the matching
\* kind with a valid proof and a decodable payload succeeds.
C18_IssuedRequestResolvable ==
    [][\A r \in RequestIds :
          (lastCall'.outcome = Ok /\ lastCall'.requestId = r)
             => \A c \in Cleartexts :
                   AbiDecodable(c)
                      => /\ (lastCall'.op = "requestAggregationDecryption")
                               => (AggregatedModelOutcome(r, c, Sign(r, c)) = Ok)'
                         /\ (lastCall'.op = "requestSuggestionDecryption")
                               => (SuggestionOutcome(r, c, Sign(r, c)) = Ok)']_vars

\* A successful callback for request r is the step just taken.
ResolvedBy(call, r) ==
    /\ call.op \in {"decryptAggregatedModel", "decryptSuggestion"}
    /\ call.outcome = Ok
    /\ call.requestId = r

\* C19: a pending request stays pending and keeps its binding under every
\* operation other than a successful resolve of that same request id:
\* submissions, reads, other requests, resolves of other ids and failed
\* resolves leave its entity id and context as issued, do not mark it
\* resolved, and the callback that passed request validation still passes.
C19_PendingStaysPending ==
    [][\A r \in RequestIds :
          (r <= counterRequest /\ ~ResolvedBy(lastCall', r))
             => /\ requestToEntityId'[r] = requestToEntityId[r]
                /\ requestToContext'[r] = requestToContext[r]
                /\ (r \notin resolved) => (r \notin resolved')
                /\ AggregationPending(r) => AggregationPending(r)'
                /\ SuggestionPending(r) => SuggestionPending(r)']_vars

\* Request 1 is still pending with its context after a callback for it was
\* rejected for its proof, while request 2, issued later, has been resolved.
C19_Witness ==
    /\ lastCall.op = "decryptAggregatedModel"
    /\ lastCall.requestId = 1
    /\ lastCall.outcome = RevertInvalidProof
    /\ counterRequest = 2
    /\ AggregationPending(1)
    /\ 1 \notin resolved
    /\ 2 \in resolved
    /\ SuggestionPending(2)

\* The call just made issued request r through request operation op.
IssuedBy(op, r) ==
    /\ lastCall.op = op
    /\ lastCall.outcome = Ok
    /\ lastCall.requestId = r

\* The call just made was callback op for request r.
CallbackOn(op, r) ==
    /\ lastCall.op = op
    /\ lastCall.requestId = r

\* C20: a callback of one kind never succeeds on a request of the other
\* kind: from the moment requestAggregationDecryption returns r, every
\* decryptSuggestion for r is rejected as invalid, whatever payload and proof
\* it carries, and from the moment requestSuggestionDecryption returns r,
\* every decryptAggregatedModel for r is rejected as invalid; a rejected
\* decryptSuggestion writes no suggestion.
C20_CrossKindNeverSucceeds ==
    /\ \A r \in RequestIds :
          [](IssuedBy("requestAggregationDecryption", r)
                => [](CallbackOn("decryptSuggestion", r)
                         => lastCall.outcome = RevertInvalid))
    /\ \A r \in RequestIds :
          [](IssuedBy("requestSuggestionDecryption", r)
                => [](CallbackOn("decryptAggregatedModel", r)
                         => lastCall.outcome = RevertInvalid))
    /\ [][(lastCall'.op = "decryptSuggestion" /\ lastCall'.outcome # Ok)
             => suggestions' = suggestions]_vars

\* decryptSuggestion was just rejected on request 1, an aggregation request
\* that decryptAggregatedModel has resolved, while the suggestion request 2
\* has been resolved by its own callback.
C20_Witness ==
    /\ lastCall.op = "decryptSuggestion"
    /\ lastCall.requestId = 1
    /\ lastCall.outcome = RevertInvalid
    /\ AggregationPending(1)
    /\ ~SuggestionPending(1)
    /\ resolved = {1, 2}
    /\ SuggestionPending(2)

\* The notification of the call, by name.
Emits(call, name) == call.event # NoEvent /\ call.event[1] = name

\* C21: a decrypted notification is emitted only by a successful callback
\* and only after the request notification of the same request:
\* SuggestionDecrypted(B) comes from a successful decryptSuggestion for an
\* issued request r whose request notification named r and B, at most once
\* per request id; AggregationDecrypted comes from a successful
\* decryptAggregatedModel for an issued request and always carries id 0.
C21_DecryptedOncePerRequest ==
    [][/\ Emits(lastCall', "SuggestionDecryptionRequested")
             => \E r \in RequestIds :
                   /\ lastCall'.event = <<"SuggestionDecryptionRequested", r,
                                          UintToAddress(requestToEntityId'[r])>>
                   /\ r = counterRequest'
                   /\ r > counterRequest
       /\ Emits(lastCall', "SuggestionDecrypted")
             => \E r \in RequestIds :
                   /\ lastCall' = Call("decryptSuggestion", r, Ok,
                                       <<"SuggestionDecrypted",
                                         UintToAddress(requestToEntityId[r])>>)
                   /\ r <= counterRequest
                   /\ r \notin resolved
       /\ Emits(lastCall', "AggregationDecrypted")
             => \E r \in RequestIds :
                   /\ lastCall' = Call("decryptAggregatedModel", r, Ok,
                                       <<"AggregationDecrypted", 0>>)
                   /\ r <= counterRequest]_vars

\* C22: a submission made while its counter holds the largest representable
\* value fails with the overflow error and emits nothing; the counter does
\* not wrap to a smaller value, no id already assigned is assigned again and
\* no record is overwritten: all storage is as before the call.
C22_NoWrapAtCapacity ==
    [][/\ (lastCall'.op = "submitEncryptedSensorData" /\ sensorUploadCount = MaxUint)
             => /\ lastCall'.outcome = RevertOverflow
                /\ lastCall'.event = NoEvent
                /\ storage' = storage
       /\ (lastCall'.op = "submitEncryptedModelUpdate" /\ modelUpdateCount = MaxUint)
             => /\ lastCall'.outcome = RevertOverflow
                /\ lastCall'.event = NoEvent
                /\ storage' = storage
       /\ (lastCall'.outcome = RevertOverflow)
             => \/ lastCall'.op = "submitEncryptedSensorData" /\ sensorUploadCount = MaxUint
                \/ lastCall'.op = "submitEncryptedModelUpdate" /\ modelUpdateCount = MaxUint
       /\ sensorUploadCount' >= sensorUploadCount
       /\ modelUpdateCount' >= modelUpdateCount
       /\ \A i \in 1..sensorUploadCount : sensorData'[i] = sensorData[i]
       /\ \A i \in 1..modelUpdateCount : modelUpdates'[i] = modelUpdates[i]]_vars

\* A sensor submission was refused at capacity with every slot of the sensor
\* registry taken, while the model-update registry still has room.
C22_Witness ==
    /\ lastCall.op = "submitEncryptedSensorData"
    /\ lastCall.outcome = RevertOverflow
    /\ sensorUploadCount = MaxUint
    /\ sensorData[MaxUint].id = MaxUint
    /\ sensorData[1].id = 1
    /\ modelUpdateCount < MaxUint
    /\ modelUpdateCount >= 1

\* =================================================== frontend (App.tsx)
\* Simulated FHE encryption of the form data: `FHE-${btoa(JSON(newData))}`.
Encrypt(dataType) == IF dataType = "soil" THEN "FHE-soil" ELSE "FHE-crop"

\* isOwner(address) as evaluated by the App of browser c.
isOwner(c, address) == ToLowerCase(account[c]) = ToLowerCase(address)

\* The FarmData entry loadFarmData builds from the record stored under key.
FarmDataOf(key) ==
    LET data == dataRecords[key]
    IN  [id |-> key, encryptedData |-> data.data, timestamp |-> data.timestamp,
         owner |-> data.owner, dataType |-> data.dataType,
         status |-> IF data.status = "" THEN "pending" ELSE data.status]

\* list.sort((a, b) => b.timestamp - a.timestamp): stable, newest first.
RECURSIVE InsertByTimestamp(_, _)
InsertByTimestamp(list, entry) ==
    IF list = <<>> THEN <<entry>>
    ELSE IF Head(list).timestamp < entry.timestamp THEN <<entry>> \o list
    ELSE <<Head(list)>> \o InsertByTimestamp(Tail(list), entry)

RECURSIVE SortByTimestamp(_)
SortByTimestamp(list) ==
    IF list = <<>> THEN <<>>
    ELSE InsertByTimestamp(SortByTimestamp(SubSeq(list, 1, Len(list) - 1)),
                           list[Len(list)])

\* The loop of loadFarmData over keys: an entry for every key whose record
\* is stored (a key of DataIds; other keys read empty bytes).
RECURSIVE LoadList(_)
LoadList(keys) ==
    IF keys = <<>> THEN <<>>
    ELSE LET key == Head(keys)
         IN  (IF key \in DataIds /\ dataRecords[key].present
              THEN <<FarmDataOf(key)>> ELSE <<>>) \o LoadList(Tail(keys))

\* ---------------------------------------------------------------- wallet
onWalletSelect(c) ==
    /\ ~provider[c]
    /\ provider' = [provider EXCEPT ![c] = TRUE]
    /\ \E a \in WalletAccounts(c) : account' = [account EXCEPT ![c] = a]
    /\ UNCHANGED <<dataKeys, dataRecords, dataIdsUsed, farmData, isRefreshing,
                   uploading, refreshRun, uploadRun,
                   processRun, contractVars>>

onDisconnect(c) ==
    /\ provider[c]
    /\ provider' = [provider EXCEPT ![c] = FALSE]
    /\ account' = [account EXCEPT ![c] = ""]
    /\ UNCHANGED <<dataKeys, dataRecords, dataIdsUsed, farmData, isRefreshing,
                   uploading, refreshRun, uploadRun,
                   processRun, contractVars>>

\* ---------------------------------------------------------- loadFarmData
\* A call of loadFarmData sets isRefreshing before its first await; the
\* caller's step does that and puts the run at "load".  The reads of a call
\* change nothing in the store, so the rest of the call, through `finally`,
\* is one step taken when its awaits have settled: it leaves by `return`
\* (no contract, contract not available), by `catch`, or with the list.
\* Reads of single records that throw are caught per key and not modelled.
loadFarmData_EarlyReturn(c, run) ==
    /\ run[c].pc = "load"
    /\ run' = [run EXCEPT ![c] = Idle]
    /\ \/ /\ farmData' = [farmData EXCEPT ![c] = SortByTimestamp(LoadList(dataKeys))]
          /\ isRefreshing' = [isRefreshing EXCEPT ![c] = FALSE]
       \/ UNCHANGED <<farmData, isRefreshing>>

loadFarmData(c, run) ==
    /\ run[c].pc = "load"
    /\ run' = [run EXCEPT ![c] = Idle]
    /\ isRefreshing' = [isRefreshing EXCEPT ![c] = FALSE]
    /\ \/ farmData' = [farmData EXCEPT ![c] = SortByTimestamp(LoadList(dataKeys))]
       \/ UNCHANGED farmData

\* The Refresh button (disabled while isRefreshing) or the mount effect.
\* One Refresh run per browser is followed at a time.
refresh(c) ==
    /\ ~isRefreshing[c]
    /\ refreshRun[c].pc = "idle"
    /\ isRefreshing' = [isRefreshing EXCEPT ![c] = TRUE]
    /\ refreshRun' = [refreshRun EXCEPT ![c] = Loading]
    /\ UNCHANGED <<dataKeys, dataRecords, dataIdsUsed, provider, account,
                   farmData, uploading, uploadRun,
                   processRun, contractVars>>

refresh_load(c) ==
    /\ loadFarmData(c, refreshRun)
    /\ UNCHANGED <<dataKeys, dataRecords, dataIdsUsed, provider, account,
                   uploading, uploadRun, processRun,
                   contractVars>>

\* ------------------------------------------------------------ uploadData
\* Upload runs that have not drawn their data id yet.
UploadsWaiting == Cardinality({c \in Clients : uploadRun[c].pc = "setRecord"})

\* The Submit button of the upload form (disabled while uploading): the
\* run up to `await getContractWithSigner()`.  account and newData are the
\* values of the render the handler was created in.
uploadData(c, dataType) ==
    /\ ~uploading[c]
    /\ uploadRun[c].pc = "idle"
    /\ dataIdsUsed + UploadsWaiting < MaxUploads
    /\ IF ~provider[c]
       THEN UNCHANGED <<uploading, uploadRun>>
       ELSE /\ uploading' = [uploading EXCEPT ![c] = TRUE]
            /\ uploadRun' = [uploadRun EXCEPT ![c] =
                  [pc |-> "setRecord", dataId |-> 0, keys |-> <<>>,
                   dataRecord |-> [present |-> TRUE, data |-> Encrypt(dataType),
                                   timestamp |-> 0, owner |-> account[c],
                                   dataType |-> dataType, status |-> "pending"]]]
    /\ UNCHANGED <<dataKeys, dataRecords, dataIdsUsed, provider, account,
                   farmData, isRefreshing, refreshRun, processRun, contractVars>>

\* catch and finally of uploadData.
uploadData_failed(c) ==
    /\ uploading' = [uploading EXCEPT ![c] = FALSE]
    /\ uploadRun' = [uploadRun EXCEPT ![c] = Idle]
    /\ UNCHANGED <<dataKeys, dataRecords, dataIdsUsed, isRefreshing>>

\* One continuation of uploadData, from one access of the store to the
\* next (the awaits between them touch nothing shared).
uploadData_continue(c) ==
    LET run == uploadRun[c]
        dataId == dataIdsUsed + 1
    IN  /\ run.pc \in {"setRecord", "getKeys", "setKeys"}
        /\ \/ \* lines 147-166: the signer is there, the data id and the
              \* record are made, setData("data_<id>", record) was mined
              /\ run.pc = "setRecord"
              /\ dataIdsUsed' = dataId
              /\ dataRecords' = [dataRecords EXCEPT
                    ![dataId] = [run.dataRecord EXCEPT !.timestamp = dataId]]
              /\ uploadRun' = [uploadRun EXCEPT ![c].pc = "getKeys",
                                                ![c].dataId = dataId,
                                                ![c].dataRecord = NoData]
              /\ UNCHANGED <<dataKeys, uploading, isRefreshing>>
           \/ \* lines 168-179: getData("data_keys") returned; keys.push
              /\ run.pc = "getKeys"
              /\ uploadRun' = [uploadRun EXCEPT
                    ![c].pc = "setKeys",
                    ![c].keys = Append(dataKeys, run.dataId)]
              /\ UNCHANGED <<dataKeys, dataRecords, dataIdsUsed, uploading,
                             isRefreshing>>
           \/ \* lines 181-192: setData("data_keys", keys) was mined;
              \* success is shown and loadFarmData is called
              /\ run.pc = "setKeys"
              /\ dataKeys' = run.keys
              /\ isRefreshing' = [isRefreshing EXCEPT ![c] = TRUE]
              /\ uploadRun' = [uploadRun EXCEPT ![c] = Loading]
              /\ UNCHANGED <<dataRecords, dataIdsUsed, uploading>>
           \/ \* the awaited call threw or the transaction was rejected
              uploadData_failed(c)
        /\ UNCHANGED <<provider, account, farmData, refreshRun, processRun,
                       contractVars>>

\* The loadFarmData awaited at line 192, then `finally` of uploadData.
uploadData_load(c) ==
    /\ loadFarmData(c, uploadRun)
    /\ uploading' = [uploading EXCEPT ![c] = FALSE]
    /\ UNCHANGED <<dataKeys, dataRecords, dataIdsUsed, provider, account,
                   refreshRun, processRun, contractVars>>

\* ----------------------------------------------------------- processData
\* The Process button is rendered for an entry of farmData whose owner is
\* the connected account and whose status is "pending".
ProcessOffered(c, dataId) ==
    \E i \in 1..Len(farmData[c]) :
       /\ farmData[c][i].id = dataId
       /\ isOwner(c, farmData[c][i].owner)
       /\ farmData[c][i].status = "pending"

\* { ...dataRecord, status: "processed" }
UpdatedData_Rebuilt(dataRecord) ==
    [NoData EXCEPT !.present = TRUE, !.data = dataRecord.data,
                   !.owner = dataRecord.owner, !.status = "processed"]
UpdatedData(dataRecord) == [dataRecord EXCEPT !.status = "processed"]

\* A click on Process: the run up to its first await.  One processData run
\* per browser is followed at a time.
processData(c, dataId) ==
    /\ ProcessOffered(c, dataId)
    /\ processRun[c].pc = "idle"
    /\ IF ~provider[c]
       THEN UNCHANGED <<processRun>>
       ELSE /\ processRun' = [processRun EXCEPT ![c].pc = "getData",
                                                ![c].dataId = dataId]
    /\ UNCHANGED <<dataKeys, dataRecords, dataIdsUsed, provider, account,
                   farmData, isRefreshing, uploading, refreshRun, uploadRun,
                   contractVars>>

\* catch of processData.
processData_failed(c) ==
    /\ processRun' = [processRun EXCEPT ![c] = Idle]
    /\ UNCHANGED <<dataRecords, isRefreshing>>

\* One continuation of processData, from one access of the store to the
\* next.
processData_continue(c) ==
    LET run == processRun[c]
        dataBytes == dataRecords[run.dataId]
    IN  /\ run.pc \in {"getData", "setData"}
        /\ \/ \* lines 235-252: the timer and the signer are there,
              \* getData("data_<id>") returned
              /\ run.pc = "getData"
              /\ IF ~dataBytes.present
                 THEN processData_failed(c)
                 ELSE /\ processRun' = [processRun EXCEPT
                            ![c].pc = "setData",
                            ![c].dataRecord = UpdatedData(dataBytes)]
                      /\ UNCHANGED <<dataRecords, isRefreshing>>
           \/ \* lines 254-265: setData was mined; success is shown and
              \* loadFarmData is called
              /\ run.pc = "setData"
              /\ dataRecords' = [dataRecords EXCEPT ![run.dataId] = run.dataRecord]
              /\ isRefreshing' = [isRefreshing EXCEPT ![c] = TRUE]
              /\ processRun' = [processRun EXCEPT ![c] = Loading]
           \/ \* the awaited call threw or the transaction was rejected
              processData_failed(c)
        /\ UNCHANGED <<dataKeys, dataIdsUsed, provider, account, farmData,
                       uploading, refreshRun, uploadRun, contractVars>>

\* The loadFarmData awaited at line 265.
processData_load(c) ==
    /\ loadFarmData(c, processRun)
    /\ UNCHANGED <<dataKeys, dataRecords, dataIdsUsed, provider, account,
                   uploading, refreshRun, uploadRun,
                   contractVars>>

\* SpecFrontend: the uploads and the processing of two browsers over the
\* shared store, each browser with a connected wallet.
NextFrontend ==
    \/ \E c \in Clients : onWalletSelect(c)
    \/ \E c \in Clients, dataType \in DataTypes : uploadData(c, dataType)
    \/ \E c \in Clients : uploadData_continue(c)
    \/ \E c \in Clients : uploadData_load(c)
    \/ \E c \in Clients, dataId \in DataIds : processData(c, dataId)
    \/ \E c \in Clients : processData_continue(c)
    \/ \E c \in Clients : processData_load(c)

SpecFrontend == Init /\ [][NextFrontend]_vars

\* SpecApp: every handler of one browser, with the wallet connected and
\* disconnected at any time.  Every awaited call settles, so a run in
\* flight takes its next step eventually.
NextApp ==
    \/ \E c \in {1} : onWalletSelect(c)
    \/ \E c \in {1} : onDisconnect(c)
    \/ \E c \in {1} : refresh(c)
    \/ \E c \in {1} : refresh_load(c)
    \/ \E c \in {1}, dataType \in DataTypes : uploadData(c, dataType)
    \/ \E c \in {1} : uploadData_continue(c)
    \/ \E c \in {1} : uploadData_load(c)
    \/ \E c \in {1}, dataId \in DataIds : processData(c, dataId)
    \/ \E c \in {1} : processData_continue(c)
    \/ \E c \in {1} : processData_load(c)

AwaitsSettle ==
    /\ WF_vars(refresh_load(1))
    /\ WF_vars(uploadData_continue(1) \/ uploadData_load(1))
    /\ WF_vars(processData_continue(1) \/ processData_load(1))

SpecApp == Init /\ [][NextApp]_vars /\ AwaitsSettle

\* The ids listed in a keys array.
Listed(keys) == {keys[i] : i \in 1..Len(keys)}

\* C23: after any interleaving of uploadData runs that report success, the
\* "data_keys" index holds the data id of every one of them: the run that
\* reports success has its id listed, and no step of any run (the
\* read-append-write of another upload included) removes a listed id.
C23_NoLostKey ==
    [][/\ \A c \in Clients :
             (uploadRun[c].pc = "setKeys" /\ uploadRun'[c].pc = "load")
                => uploadRun[c].dataId \in Listed(dataKeys')
       /\ \A key \in DataIds :
             key \in Listed(dataKeys) => key \in Listed(dataKeys')]_vars

\* A step of processData by browser c wrote the record of its data id.
ProcessWrote(c) == processRun[c].pc = "setData" /\ processRun'[c].pc = "load"

\* C24: processData only ever sets the status of the stored record to
\* "processed" and writes every other field as it read it; a run that finds
\* no record ends without a write; a run starts only for an entry shown as
\* "pending" and owned by the connected account; and no step of any
\* processData or uploadData run, however interleaved, takes a stored
\* record from "processed" back to "pending".
C24_ProcessOnlyMarksProcessed ==
    [][/\ \A c \in Clients :
             ProcessWrote(c)
                => \E dataId \in DataIds :
                      /\ dataId = processRun[c].dataId
                      /\ dataRecords[dataId].present
                      /\ dataRecords'[dataId].status = "processed"
                      /\ dataRecords'[dataId] =
                            [dataRecords[dataId] EXCEPT !.status = "processed"]
                      /\ \A other \in DataIds \ {dataId} :
                            dataRecords'[other] = dataRecords[other]
                      /\ dataKeys' = dataKeys
       /\ \A c \in Clients :
             (processRun[c].pc = "getData" /\ processRun'[c].pc # "getData"
                 /\ ~dataRecords[processRun[c].dataId].present)
                => processRun'[c].pc = "idle" /\ dataRecords' = dataRecords
       /\ \A c \in Clients :
             (processRun[c].pc = "idle" /\ processRun'[c].pc # "idle")
                => \E i \in 1..Len(farmData[c]) :
                      /\ farmData[c][i].id = processRun'[c].dataId
                      /\ farmData[c][i].status = "pending"
                      /\ ToLowerCase(farmData[c][i].owner) = ToLowerCase(account[c])
                      /\ provider[c]
       /\ \A dataId \in DataIds :
             dataRecords[dataId].status = "processed"
                => dataRecords'[dataId].status = "processed"]_vars

\* Browser 2 has just written "processed" over a record that browser 1
\* uploaded and has already processed, while the record of a later upload
\* is still pending.
C24_Witness ==
    /\ processRun[2].pc = "load"
    /\ processRun[1].pc = "idle"
    /\ dataRecords[1].status = "processed"
    /\ dataRecords[1].owner = "0xAb"
    /\ account[2] = "0xab"
    /\ dataRecords[2].status = "pending"
    /\ \E i \in 1..Len(farmData[1]) :
          farmData[1][i].id = 1 /\ farmData[1][i].status = "processed"

\* A call of loadFarmData held in run ends in this step.
LoadExits(run, c) == run[c].pc = "load" /\ run'[c].pc # "load"

\* C25: the busy flags are always released.  Every exit of loadFarmData
\* (no contract, contract not available, error, success; called by Refresh,
\* by uploadData or by processData) leaves isRefreshing false, every exit of
\* uploadData (no provider, failed signer, rejected transaction, success)
\* leaves uploading false, and so each flag is down again and again: after
\* any moment the Refresh and the Submit button are enabled at a later one.
C25_BusyFlagsReleased ==
    /\ [][\A c \in Clients :
             /\ (LoadExits(refreshRun, c) \/ LoadExits(uploadRun, c)
                    \/ LoadExits(processRun, c))
                   => ~isRefreshing'[c]
             /\ (uploadRun'[c].pc = "idle" /\ (uploadRun[c].pc # "idle" \/ ~uploading[c]))
                   => ~uploading'[c]]_vars
    /\ []<>(~uploading[1])
    /\ []<>(~isRefreshing[1])

\* An upload ended by a rejected transaction after its record was stored:
\* both flags are down, the record is there and its key is not listed.
C25_Witness ==
    /\ dataRecords[1].present
    /\ dataKeys = <<>>
    /\ uploadRun[1].pc = "idle"
    /\ refreshRun[1].pc = "idle"
    /\ processRun[1].pc = "idle"
    /\ ~uploading[1]
    /\ ~isRefreshing[1]
    /\ provider[1]
    /\ dataIdsUsed = 1
====
